---- MODULE Spec2Model ----
(***************************************************************************)
(* Model of ecidata.py: get_constituency_results and the two data classes  *)
(* candidate_votes and constituency_results.                               *)
(*                                                                         *)
(* Byte strings and text strings are sequences of one-character strings.   *)
(* The page lines returned by _open_constituency and the tree returned by  *)
(* ET.fromstring are the inputs of a lookup; everything else is computed   *)
(* the way the code computes it.  getchildren() is modelled as the list of *)
(* child elements (its documented meaning in the interpreters that still   *)
(* provide it).                                                            *)
(***************************************************************************)
EXTENDS Integers, Sequences, FiniteSets, TLC

(***************************************************************************)
(* Bounds of the model.                                                    *)
(***************************************************************************)
MaxLines == 3
MaxSanPieces == 3
MaxLabelPieces == 5
MaxKids == 4
MaxCandRows == 2
MaxReads == 2
MaxAppends == 1

(***************************************************************************)
(* Byte-string and text-string primitives of the Python runtime.           *)
(***************************************************************************)
Whitespace == {" ", "\t", "\n", "\r"}

RECURSIVE lstrip(_)
lstrip(s) ==
    IF s # <<>> /\ Head(s) \in Whitespace THEN lstrip(Tail(s)) ELSE s

RECURSIVE rstrip(_)
rstrip(s) ==
    IF s # <<>> /\ s[Len(s)] \in Whitespace
    THEN rstrip(SubSeq(s, 1, Len(s) - 1))
    ELSE s

strip(s) == rstrip(lstrip(s))

startswith(s, prefix) ==
    /\ Len(s) >= Len(prefix)
    /\ SubSeq(s, 1, Len(prefix)) = prefix

\* Lowest index at or after `from` where sub occurs in s, 0 if there is none.
RECURSIVE find(_, _, _)
find(s, sub, from) ==
    IF from + Len(sub) - 1 > Len(s) THEN 0
    ELSE IF SubSeq(s, from, from + Len(sub) - 1) = sub THEN from
    ELSE find(s, sub, from + 1)

\* `sub in s`
contains(s, sub) == find(s, sub, 1) # 0

\* s.replace(old, new) with only the leftmost occurrence replaced.
replace_first(s, old, new) ==
    LET k == find(s, old, 1) IN
    IF k = 0 THEN s
    ELSE SubSeq(s, 1, k - 1) \o new \o SubSeq(s, k + Len(old), Len(s))

\* s.replace(old, new): every non-overlapping occurrence, left to right.
RECURSIVE replace(_, _, _)
replace(s, old, new) ==
    LET k == find(s, old, 1) IN
    IF k = 0 THEN s
    ELSE SubSeq(s, 1, k - 1) \o new
            \o replace(SubSeq(s, k + Len(old), Len(s)), old, new)

\* s.split(sep) cutting at the last occurrence only.
RECURSIVE split_last(_, _)
split_last(s, sep) ==
    LET k == find(s, sep, 1) IN
    IF k = 0 THEN <<s>>
    ELSE LET rest == split_last(SubSeq(s, k + Len(sep), Len(s)), sep) IN
         IF Len(rest) = 1
         THEN <<SubSeq(s, 1, k - 1), rest[1]>>
         ELSE <<SubSeq(s, 1, k - 1) \o sep \o rest[1], rest[2]>>

\* s.split(sep): the pieces between the non-overlapping occurrences of sep.
RECURSIVE split(_, _)
split(s, sep) ==
    LET k == find(s, sep, 1) IN
    IF k = 0 THEN <<s>>
    ELSE <<SubSeq(s, 1, k - 1)>>
            \o split(SubSeq(s, k + Len(sep), Len(s)), sep)

\* sep.join(parts)
RECURSIVE join(_, _)
join(sep, parts) ==
    IF parts = <<>> THEN <<>>
    ELSE IF Len(parts) = 1 THEN parts[1]
    ELSE parts[1] \o sep \o join(sep, Tail(parts))

Digits == {"0", "1", "2", "3", "4", "5", "6", "7", "8", "9"}

DigitVal(c) ==
    CASE c = "0" -> 0 [] c = "1" -> 1 [] c = "2" -> 2 [] c = "3" -> 3
      [] c = "4" -> 4 [] c = "5" -> 5 [] c = "6" -> 6 [] c = "7" -> 7
      [] c = "8" -> 8 [] c = "9" -> 9

\* Digits with single underscores allowed between two digits.
IsDigitString(s) ==
    /\ s # <<>>
    /\ \A k \in 1..Len(s) :
          \/ s[k] \in Digits
          \/ /\ s[k] = "_"
             /\ 1 < k /\ k < Len(s)
             /\ s[k - 1] \in Digits /\ s[k + 1] \in Digits

RECURSIVE DigitsValue(_, _)
DigitsValue(s, acc) ==
    IF s = <<>> THEN acc
    ELSE IF Head(s) = "_" THEN DigitsValue(Tail(s), acc)
    ELSE DigitsValue(Tail(s), 10 * acc + DigitVal(Head(s)))

HasSign(s) == s # <<>> /\ Head(s) \in {"+", "-"}

Unsigned(s) == IF HasSign(s) THEN Tail(s) ELSE s

\* int(s) accepts s: optional sign, then a digit string (after stripping).
int_ok(s) == IsDigitString(Unsigned(strip(s)))

\* int(s), defined where int_ok(s).
int(s) ==
    LET t == strip(s)
        v == DigitsValue(Unsigned(t), 0)
    IN IF HasSign(t) /\ Head(t) = "-" THEN 0 - v ELSE v

(***************************************************************************)
(* Literals of the source.                                                 *)
(***************************************************************************)
marker == <<"<", "d", "i", "v", " ", "i", "d", "=", "\"", "d", "i", "v", "1", "\"">>
align_left == <<"a", "l", "i", "g", "n", "=", "l", "e", "f", "t">>
align_left_quoted == <<"a", "l", "i", "g", "n", "=", "\"", "l", "e", "f", "t", "\"">>
align_right == <<"a", "l", "i", "g", "n", "=", "r", "i", "g", "h", "t">>
align_right_quoted == <<"a", "l", "i", "g", "n", "=", "\"", "r", "i", "g", "h", "t", "\"">>
td_tr == <<"<", "t", "d", ">", "<", "/", "t", "r", ">">>
td_tr_closed == <<"<", "/", "t", "d", ">", "<", "/", "t", "r", ">">>
name_sep == <<" ", "-", " ">>
result_declared == <<"R", "e", "s", "u", "l", "t", " ", "D", "e", "c", "l", "a", "r", "e", "d">>
HeaderRows == 3


(***************************************************************************)
(* Inputs of a lookup: the lines of the fetched page and the tree that     *)
(* ET.fromstring builds from the wrapped results line.                     *)
(***************************************************************************)
SeqsUpTo(S, n) == UNION {[1..k -> S] : k \in 0..n}

RECURSIVE Flatten(_)
Flatten(ss) == IF ss = <<>> THEN <<>> ELSE Head(ss) \o Flatten(Tail(ss))

\* The .text of an element that has no text.
NoneText == <<"None">>

MarkerLine == <<"<", "d", "i", "v", " ", "i", "d", "=", "\"", "d", "i", "v", "1", "\"", ">", "\n">>
IndentedMarkerLine == <<" ", " ", "<", "d", "i", "v", " ", "i", "d", "=", "\"", "d", "i", "v", "1", "\"", " ", ">", "\r", "\n">>
NearMarkerLine == <<"<", "d", "i", "v", " ", "i", "d", "=", "\"", "d", "i", "v", "2", "\"", ">", "\n">>
DataLine == <<" ", "<", "t", "a", "b", "l", "e", ">", "x", "<", "/", "t", "a", "b", "l", "e", ">", "\n">>
BlankLine == <<"\n">>
OtherLine == <<"<", "p", ">", "\n">>

LineSet ==
    {MarkerLine, IndentedMarkerLine, NearMarkerLine, DataLine, BlankLine, OtherLine}

SanPieces ==
    { align_left, align_right, td_tr,
      <<"a", "l", "i", "g", "n", "=">>, <<"l", "e", "f", "t">>,
      <<"<", "t", "d", ">">>, <<"<", "/", "t", "r", ">">>, <<"\"">> }

LabelPieces == { <<"M">>, name_sep, <<" ">>, <<"-">> }

StatusTexts ==
    { result_declared,
      <<"R", "e", "s", "u", "l", "t", " ", "d", "e", "c", "l", "a", "r", "e", "d">>,
      <<"x", " ", "R", "e", "s", "u", "l", "t", " ", "D", "e", "c", "l", "a", "r", "e", "d", ".">>,
      <<"i", "n", " ", "p", "r", "o", "g", "r", "e", "s", "s">>,
      <<"T", "r", "e", "n", "d", "s">>,
      <<"R", "e", "s", "u", "l", "t", " ", " ", "D", "e", "c", "l", "a", "r", "e", "d">>,
      <<"R", "E", "S", "U", "L", "T", " ", "D", "E", "C", "L", "A", "R", "E", "D">>,
      <<"R", "e", "s", "u", "l", "t", " ", "D", "e", "c", "l", "a", "r", "e">>,
      <<>>, NoneText }

DefaultLabel == <<"K", " ", "-", " ", "B", " ", "S">>
HeaderRow == << <<"C">>, <<"P">>, <<"V">> >>

CandRows ==
    { << <<" ", "A", " ">>, <<"X">>, <<"5", "5">> >>,
      << <<"B">>, <<"Y", "\n">>, <<"4", "2">> >>,
      << <<"C">>, <<"X">>, <<"-", "5">> >>,
      << <<"D">>, <<"Y">>, <<" ", "1", "_", "0">>, <<"e">> >>,
      << <<"E">>, <<"X">>, <<"4", " ", "2">> >>,
      << <<"F">>, <<"Y">> >>,
      << <<"G">>, NoneText, <<"7">> >> }

DefaultCands ==
    << << <<"A">>, <<"X">>, <<"5", "5">> >>, << <<"B">>, <<"Y">>, <<"4", "2">> >> >>

TableRows(label_row, status_row, header_row, cands) ==
    <<label_row, status_row, header_row>> \o cands

DefaultRows ==
    TableRows(<<DefaultLabel>>, <<result_declared>>, HeaderRow, DefaultCands)

\* A tree: the tags of the container's children and the rows (each the
\* sequence of its cells' texts) under the first child.
Tree(tags, rows) == [ok |-> TRUE, kids |-> tags, rows |-> rows]
ParseError == [ok |-> FALSE, kids |-> <<>>, rows |-> <<>>]
DefaultTags == <<"table", "div", "div">>
DefaultTree == Tree(DefaultTags, DefaultRows)
DefaultPage == <<OtherLine, MarkerLine, DataLine, OtherLine>>

Input(lines, t) == [page |-> lines, tree |-> t]

LocatorInputs ==
    { Input(lines, t) : lines \in SeqsUpTo(LineSet, MaxLines),
                        t \in {DefaultTree} }

SanitizeInputs ==
    { Input(<<MarkerLine, Flatten(ps)>>, t) :
          ps \in SeqsUpTo(SanPieces, MaxSanPieces),
          t \in {DefaultTree, ParseError} }

ShapeInputs ==
    { Input(DefaultPage, Tree(tags, DefaultRows)) :
          tags \in SeqsUpTo({"table", "div"}, MaxKids) }

LabelInputs ==
    { Input(DefaultPage,
            Tree(DefaultTags,
                 TableRows(<<Flatten(ps)>>, <<result_declared>>, HeaderRow,
                           DefaultCands))) :
          ps \in SeqsUpTo(LabelPieces, MaxLabelPieces) }
    \cup
    { Input(DefaultPage,
            Tree(DefaultTags,
                 TableRows(r, <<result_declared>>, HeaderRow, DefaultCands))) :
          r \in { <<>>, <<NoneText>>, <<DefaultLabel, <<"z">> >> } }

StatusInputs ==
    { Input(DefaultPage,
            Tree(DefaultTags,
                 TableRows(<<DefaultLabel>>, r, HeaderRow, DefaultCands))) :
          r \in { <<t>> : t \in StatusTexts }
                \cup { <<>>, <<<<"T">>, result_declared>> } }

RowInputs ==
    { Input(DefaultPage,
            Tree(DefaultTags,
                 TableRows(<<DefaultLabel>>, <<st>>, h, cands))) :
          st \in { result_declared, <<"T", "r", "e", "n", "d", "s">> },
          h \in { HeaderRow, <<>>, << <<"H">>, <<"X">>, <<"9">> >> },
          cands \in SeqsUpTo(CandRows, MaxCandRows) }
    \cup
    { Input(DefaultPage, Tree(DefaultTags, SubSeq(DefaultRows, 1, k))) :
          k \in 0..2 }

Inputs ==
    LocatorInputs \cup SanitizeInputs \cup ShapeInputs \cup LabelInputs
        \cup StatusInputs \cup RowInputs

(***************************************************************************)
(* State.                                                                  *)
(***************************************************************************)
VARIABLES
    page,                   \* lines yielded by _open_constituency
    tree,                   \* what ET.fromstring makes of the wrapped line
    pc,                     \* position in get_constituency_results / caller
    err,                    \* exception that ended the lookup, or "none"
    pos,                    \* index of the next line the for loop yields
    next_line_has_results,
    results_line,           \* [is_bytes, val]: "" is a str, lines are bytes
    bound,                  \* later locals that have been assigned
    parsed,
    result_rows,
    row,                    \* index of the next row of the extraction loop
    state_name,
    constituency_name,
    declared,
    all_votes,
    result,                 \* the constituency_results object returned
    total,                  \* value of the last vote_count read
    reads,
    appends

vars ==
    << page, tree, pc, err, pos, next_line_has_results, results_line, bound,
       parsed, result_rows, row, state_name, constituency_name, declared,
       all_votes, result, total, reads, appends >>

inputs == <<page, tree>>
scan_vars == <<pos, next_line_has_results>>
tree_vars == <<bound, parsed, result_rows, row>>
data_vars == <<state_name, constituency_name, declared, all_votes>>
caller_vars == <<result, total, reads, appends>>

str_empty == [is_bytes |-> FALSE, val |-> <<>>]
bytes(s) == [is_bytes |-> TRUE, val |-> s]

candidate_votes(candidate, party, votes) ==
    [candidate |-> candidate, party |-> party, votes |-> votes]

constituency_results(state, constituency, votes, is_declared) ==
    [state |-> state, constituency |-> constituency,
     all_candidate_votes |-> votes, declared |-> is_declared]

NoResult == constituency_results(<<>>, <<>>, <<>>, FALSE)

Init ==
    /\ \E in \in Inputs : page = in.page /\ tree = in.tree
    /\ pc = "scan"
    /\ err = "none"
    /\ pos = 1
    /\ next_line_has_results = FALSE
    /\ results_line = str_empty
    /\ bound = {}
    /\ parsed = ParseError
    /\ result_rows = <<>>
    /\ row = 1
    /\ state_name = <<>>
    /\ constituency_name = <<>>
    /\ declared = FALSE
    /\ all_votes = <<>>
    /\ result = NoResult
    /\ total = 0
    /\ reads = 0
    /\ appends = 0

Running(stage) == pc = stage /\ err = "none"

Raise(exception) == err' = exception /\ pc' = pc

(***************************************************************************)
(* Line locator: the for loop of get_constituency_results.                 *)
(***************************************************************************)
ScanLine ==
    /\ Running("scan")
    /\ pos <= Len(page)
    /\ LET line == strip(page[pos]) IN
       IF startswith(line, marker)
       THEN /\ next_line_has_results' = TRUE
            /\ pos' = pos + 1
            /\ UNCHANGED <<pc, results_line>>
       ELSE IF next_line_has_results
       THEN /\ results_line' = bytes(line)
            /\ pc' = "sanitize"
            /\ UNCHANGED <<pos, next_line_has_results>>
       ELSE /\ pos' = pos + 1
            /\ UNCHANGED <<pc, next_line_has_results, results_line>>
    /\ UNCHANGED <<inputs, err, tree_vars, data_vars, caller_vars>>

ScanEnd ==
    /\ Running("scan")
    /\ pos > Len(page)
    /\ pc' = "sanitize"
    /\ UNCHANGED <<inputs, err, scan_vars, results_line, tree_vars, data_vars,
                   caller_vars>>

(***************************************************************************)
(* Result extractor: sanitization, parsing, shape checks and extraction.   *)
(***************************************************************************)
div_open == <<"<", "d", "i", "v", ">">>
div_close == <<"<", "/", "d", "i", "v", ">">>

\* The three replacements with only the first occurrence of each repaired.
sanitize_first_only(line) ==
    replace_first(
        replace_first(replace_first(line, align_left, align_left_quoted),
                      align_right, align_right_quoted),
        td_tr, td_tr_closed)

sanitize(line) ==
    replace(replace(replace(line, align_left, align_left_quoted),
                    align_right, align_right_quoted),
            td_tr, td_tr_closed)

\* Sanitization that takes the initial "" for an empty byte string.
SanitizeUntyped ==
    /\ Running("sanitize")
    /\ results_line' = bytes(sanitize(results_line.val))
    /\ pc' = "parse"
    /\ UNCHANGED <<inputs, err, scan_vars, tree_vars, data_vars, caller_vars>>

\* bytes.replace is applied to whatever results_line holds; on the initial
\* "" (a str) the first call raises TypeError.
Sanitize ==
    /\ Running("sanitize")
    /\ IF results_line.is_bytes
       THEN /\ results_line' = bytes(sanitize(results_line.val))
            /\ pc' = "parse"
            /\ UNCHANGED err
       ELSE /\ Raise("TypeError")
            /\ UNCHANGED results_line
    /\ UNCHANGED <<inputs, scan_vars, tree_vars, data_vars, caller_vars>>

\* ET.fromstring: an empty container for an empty fragment, otherwise the
\* tree (or the parse failure) of the page.
fromstring(text) ==
    IF text = div_open \o div_close THEN Tree(<<>>, <<>>) ELSE tree

Parse ==
    /\ Running("parse")
    /\ LET wrapped == div_open \o results_line.val \o div_close IN
       /\ results_line' = bytes(wrapped)
       /\ IF fromstring(wrapped).ok
          THEN /\ parsed' = fromstring(wrapped)
               /\ bound' = bound \cup {"parsed"}
               /\ pc' = "shape"
               /\ UNCHANGED err
          ELSE /\ Raise("ParseError")
               /\ UNCHANGED <<parsed, bound>>
    /\ UNCHANGED <<inputs, scan_vars, result_rows, row, data_vars, caller_vars>>

\* Shape validation that only counts the children.
ShapeCountOnly ==
    /\ Running("shape")
    /\ LET kids == parsed.kids IN
       IF Len(kids) # 3
       THEN /\ Raise("AssertionError")
            /\ bound' = bound \cup {"kids"}
            /\ UNCHANGED result_rows
       ELSE /\ result_rows' = parsed.rows
            /\ bound' = bound \cup {"kids", "result_rows"}
            /\ pc' = "names"
            /\ UNCHANGED err
    /\ UNCHANGED <<inputs, scan_vars, results_line, parsed, row, data_vars,
                   caller_vars>>

ShapeValidation ==
    /\ Running("shape")
    /\ LET kids == parsed.kids IN
       IF Len(kids) # 3 \/ kids[1] # "table"
       THEN /\ Raise("AssertionError")
            /\ bound' = bound \cup {"kids"}
            /\ UNCHANGED result_rows
       ELSE /\ result_rows' = parsed.rows
            /\ bound' = bound \cup {"kids", "result_rows"}
            /\ pc' = "names"
            /\ UNCHANGED err
    /\ UNCHANGED <<inputs, scan_vars, results_line, parsed, row, data_vars,
                   caller_vars>>

\* The name pair cut at the last separator instead of the first.
split_names_last(combined_names) ==
    LET parts == split_last(combined_names, name_sep) IN
    <<strip(parts[1]), strip(join(name_sep, Tail(parts)))>>

\* state_name, *constituency_name = combined_names.split(' - '), then the
\* strip of the first and the strip of the rejoined rest.
split_names(combined_names) ==
    LET parts == split(combined_names, name_sep) IN
    <<strip(parts[1]), strip(join(name_sep, Tail(parts)))>>

Names ==
    /\ Running("names")
    /\ IF result_rows = <<>> \/ result_rows[1] = <<>>
       THEN /\ Raise("IndexError")
            /\ UNCHANGED <<state_name, constituency_name>>
       ELSE IF result_rows[1][1] = NoneText
       THEN /\ Raise("AttributeError")
            /\ UNCHANGED <<state_name, constituency_name>>
       ELSE /\ state_name' = split_names(result_rows[1][1])[1]
            /\ constituency_name' = split_names(result_rows[1][1])[2]
            /\ pc' = "status"
            /\ UNCHANGED err
    /\ UNCHANGED <<inputs, scan_vars, results_line, tree_vars, declared,
                   all_votes, caller_vars>>

\* The declaration test made on the label row.
is_declared_row0(rows) == contains(rows[1][1], result_declared)

\* 'Result Declared' in result_rows[1].getchildren()[0].text
is_declared(rows) == contains(rows[2][1], result_declared)

Status ==
    /\ Running("status")
    /\ IF Len(result_rows) < 2 \/ result_rows[2] = <<>>
       THEN /\ Raise("IndexError")
            /\ UNCHANGED declared
       ELSE IF result_rows[2][1] = NoneText
       THEN /\ Raise("TypeError")
            /\ UNCHANGED declared
       ELSE /\ declared' = IF is_declared(result_rows) THEN TRUE ELSE declared
            /\ pc' = "slice"
            /\ UNCHANGED err
    /\ UNCHANGED <<inputs, scan_vars, results_line, tree_vars, state_name,
                   constituency_name, all_votes, caller_vars>>

\* The slice taken one row late.
candidate_rows_late(rows) == SubSeq(rows, HeaderRows + 2, Len(rows))

\* result_rows[3:]
candidate_rows(rows) == SubSeq(rows, HeaderRows + 1, Len(rows))

DropHeaderRows ==
    /\ Running("slice")
    /\ result_rows' = candidate_rows(result_rows)
    /\ row' = 1
    /\ pc' = "rows"
    /\ UNCHANGED <<inputs, err, scan_vars, results_line, bound, parsed,
                   data_vars, caller_vars>>

\* The new entry put in front of the list.
append_front(votes, cv) == <<cv>> \o votes

\* all_votes.append(cv)
append(votes, cv) == Append(votes, cv)

ExtractRow ==
    /\ Running("rows")
    /\ row <= Len(result_rows)
    /\ LET cells == result_rows[row] IN
       IF \E c \in 1..Len(cells) : cells[c] = NoneText
       THEN /\ Raise("AttributeError")
            /\ UNCHANGED <<row, all_votes>>
       ELSE LET data == [c \in 1..Len(cells) |-> strip(cells[c])] IN
            IF Len(data) < 3
            THEN /\ Raise("IndexError")
                 /\ UNCHANGED <<row, all_votes>>
            ELSE IF ~int_ok(data[3])
            THEN /\ Raise("ValueError")
                 /\ UNCHANGED <<row, all_votes>>
            ELSE /\ all_votes' =
                       append(all_votes,
                              candidate_votes(data[1], data[2], int(data[3])))
                 /\ row' = row + 1
                 /\ UNCHANGED <<pc, err>>
    /\ UNCHANGED <<inputs, scan_vars, results_line, bound, parsed, result_rows,
                   state_name, constituency_name, declared, caller_vars>>

Return ==
    /\ Running("rows")
    /\ row > Len(result_rows)
    /\ result' = constituency_results(state_name, constituency_name,
                                      all_votes, declared)
    /\ pc' = "done"
    /\ UNCHANGED <<inputs, err, scan_vars, results_line, tree_vars, data_vars,
                   total, reads, appends>>

(***************************************************************************)
(* The returned object in the caller's hands.                              *)
(***************************************************************************)
RECURSIVE sum(_)
sum(values) == IF values = <<>> THEN 0 ELSE Head(values) + sum(Tail(values))

\* The total taken from the list as it was when the lookup returned.
vote_count_stored(self) ==
    sum([k \in 1..Len(all_votes) |-> all_votes[k].votes])

\* sum([cv.votes for cv in self.all_candidate_votes])
vote_count(self) ==
    sum([k \in 1..Len(self.all_candidate_votes) |->
            self.all_candidate_votes[k].votes])

ReadVoteCount ==
    /\ Running("done")
    /\ reads < MaxReads
    /\ total' = vote_count(result)
    /\ reads' = reads + 1
    /\ UNCHANGED <<inputs, pc, err, scan_vars, results_line, tree_vars,
                   data_vars, result, appends>>

\* all_candidate_votes hands out the list itself; a caller can add to it.
CallerVotes ==
    { candidate_votes(<<"Z">>, <<"W">>, 3),
      candidate_votes(<<"Z">>, <<"W">>, -1) }

AppendToVotes ==
    /\ Running("done")
    /\ appends < MaxAppends
    /\ \E cv \in CallerVotes :
          result' = [result EXCEPT !.all_candidate_votes = Append(@, cv)]
    /\ appends' = appends + 1
    /\ UNCHANGED <<inputs, pc, err, scan_vars, results_line, tree_vars,
                   data_vars, total, reads>>

Next ==
    \/ ScanLine
    \/ ScanEnd
    \/ Sanitize
    \/ Parse
    \/ ShapeValidation
    \/ Names
    \/ Status
    \/ DropHeaderRows
    \/ ExtractRow
    \/ Return
    \/ ReadVoteCount
    \/ AppendToVotes

Spec == Init /\ [][Next]_vars

(***************************************************************************)
(* Vocabulary of the properties, stated on the inputs independently of the *)
(* operators the actions use.                                              *)
(***************************************************************************)
IsMarkerLine(l) == startswith(strip(l), marker)

MarkerIndices == {k \in 1..Len(page) : IsMarkerLine(page[k])}

\* Index of the first marker line, 0 if the page has none.
FirstMarker ==
    IF MarkerIndices = {} THEN 0
    ELSE CHOOSE m \in MarkerIndices : \A k \in MarkerIndices : m <= k

NoMarker == FirstMarker = 0
MarkerLast == FirstMarker # 0 /\ FirstMarker = Len(page)

\* Indices of the lines after the first marker that are not marker lines.
DataIndices ==
    {k \in 1..Len(page) : FirstMarker # 0 /\ k > FirstMarker
                            /\ ~IsMarkerLine(page[k])}

LocatedLine ==
    strip(page[CHOOSE d \in DataIndices : \A k \in DataIndices : d <= k])

Occurs(s, pat) ==
    \E k \in 1..Len(s) :
        k + Len(pat) - 1 <= Len(s) /\ SubSeq(s, k, k + Len(pat) - 1) = pat

Unrepaired(s) ==
    Occurs(s, align_left) \/ Occurs(s, align_right) \/ Occurs(s, td_tr)

\* Index of the first " - " of a label, 0 if it has none.
FirstSep(label) ==
    IF ~Occurs(label, name_sep) THEN 0
    ELSE CHOOSE k \in 1..Len(label) :
            /\ k + 2 <= Len(label)
            /\ SubSeq(label, k, k + 2) = name_sep
            /\ \A j \in 1..(k - 1) : SubSeq(label, j, j + 2) # name_sep

RECURSIVE SumVotes(_, _)
SumVotes(votes, n) ==
    IF n = 0 THEN 0 ELSE SumVotes(votes, n - 1) + votes[n].votes

Returned == pc = "done" /\ appends = 0
Failed == err # "none"
ShapeOk == Len(parsed.kids) = 3 /\ parsed.kids[1] = "table"

(***************************************************************************)
(* C1: when a marker line is followed by at least one more line, the line  *)
(* selected as results line is the stripped line right after the first     *)
(* marker line, whatever that line is (also when it is a marker line).     *)
(***************************************************************************)
C1_LineAfterFirstMarker ==
    (pc = "sanitize" /\ FirstMarker # 0 /\ FirstMarker < Len(page))
        => results_line = bytes(strip(page[FirstMarker + 1]))

C3_ShapeGate ==
    /\ pc = "done" => ShapeOk
    /\ ("parsed" \in bound /\ ~ShapeOk) =>
          /\ pc = "shape"
          /\ "result_rows" \notin bound
          /\ result_rows = <<>>
          /\ result = NoResult
          /\ "kids" \in bound => err = "AssertionError"
          /\ Failed => err = "AssertionError"

C3_Witness ==
    /\ err = "AssertionError"
    /\ Len(parsed.kids) = 3
    /\ parsed.kids[1] = "div"
    /\ parsed.rows # <<>>

(***************************************************************************)
(* C4: every votes value of a returned result is a non-negative integer;   *)
(* a row whose third cell is not a non-negative base-10 integer makes the  *)
(* lookup fail instead.                                                    *)
(***************************************************************************)
C4_VotesNonNegative ==
    /\ \A k \in 1..Len(all_votes) : all_votes[k].votes >= 0
    /\ Returned =>
          \A k \in 1..Len(result.all_candidate_votes) :
              result.all_candidate_votes[k].votes >= 0

(***************************************************************************)
(* C5: every returned result has a non-empty candidate-votes sequence; a   *)
(* table with only the label, status and header rows yields no successful  *)
(* result with an empty list.                                              *)
(***************************************************************************)
C5_NeverEmpty ==
    Returned => result.all_candidate_votes # <<>>

(***************************************************************************)
(* C5 as amended: a returned candidate-votes sequence is empty exactly     *)
(* when the table has no row after its first three rows; such a table      *)
(* yields a successful result with an empty list.                          *)
(***************************************************************************)
C5_EmptyIffNoCandidateRows ==
    Returned =>
        (result.all_candidate_votes = <<>> <=> Len(parsed.rows) <= HeaderRows)

C5_Witness ==
    /\ Returned
    /\ Len(parsed.rows) = HeaderRows
    /\ result.all_candidate_votes = <<>>

(***************************************************************************)
(* C6: the returned sequence has one entry per row after the first three   *)
(* (n-2 entries for rows r0..rn), in row order; entry i carries the        *)
(* trimmed first and second cells and the integer value of the third cell  *)
(* of row r(i+3).                                                          *)
(***************************************************************************)
C6_OneEntryPerCandidateRow ==
    Returned =>
        LET rows == parsed.rows
            votes == result.all_candidate_votes
        IN /\ Len(rows) >= HeaderRows => Len(votes) = Len(rows) - HeaderRows
           /\ Len(rows) < HeaderRows => votes = <<>>
           /\ \A k \in 1..Len(votes) :
                 /\ votes[k].candidate = strip(rows[k + HeaderRows][1])
                 /\ votes[k].party = strip(rows[k + HeaderRows][2])
                 /\ votes[k].votes = int(rows[k + HeaderRows][3])

C6_Witness ==
    /\ Returned
    /\ Len(result.all_candidate_votes) >= 2
    /\ result.all_candidate_votes[1].candidate = <<"B">>
    /\ result.all_candidate_votes[2].candidate = <<"A">>
    /\ result.all_candidate_votes[1].votes < result.all_candidate_votes[2].votes

(***************************************************************************)
(* C7: the returned state is the trimmed label text before the first       *)
(* " - " and the returned constituency the trimmed rest after it, later    *)
(* " - " kept; a label without " - " gives the trimmed label as state and  *)
(* an empty constituency.                                                  *)
(***************************************************************************)
C7_NameSplit ==
    pc = "done" =>
        LET label == parsed.rows[1][1]
            k == FirstSep(label)
        IN IF k = 0
           THEN /\ result.state = strip(label)
                /\ result.constituency = <<>>
           ELSE /\ result.state = strip(SubSeq(label, 1, k - 1))
                /\ result.constituency =
                       strip(SubSeq(label, k + Len(name_sep), Len(label)))

C7_Witness ==
    /\ pc = "done"
    /\ result.state = <<"M">>
    /\ result.constituency = <<"M">> \o name_sep \o <<"M">>

(***************************************************************************)
(* C8: declared is true exactly when the text of row 1's first cell        *)
(* contains "Result Declared" (case-sensitive), whatever the other rows.   *)
(***************************************************************************)
C8_DeclaredIff ==
    pc = "done" =>
        (result.declared <=> Occurs(parsed.rows[2][1], result_declared))

C8_Witness ==
    /\ pc = "done"
    /\ result.declared
    /\ Len(parsed.rows[2][1]) > Len(result_declared)
    /\ ~Occurs(parsed.rows[1][1], result_declared)

(***************************************************************************)
(* C9: every read of vote_count yields the sum of the votes of the         *)
(* entries the candidate-votes sequence holds at that moment (0 for the    *)
(* empty one); it is recomputed, not stored.                               *)
(***************************************************************************)
C9_VoteCountIsSum ==
    [][reads' = reads + 1 =>
          total' = SumVotes(result'.all_candidate_votes,
                            Len(result'.all_candidate_votes))]_vars

C9_Witness ==
    /\ pc = "done"
    /\ reads >= 1
    /\ appends = 1
    /\ Len(result.all_candidate_votes) >= 2
    /\ total = SumVotes(result.all_candidate_votes,
                        Len(result.all_candidate_votes))

(***************************************************************************)
(* C10: sanitization leaves a line without align=left, align=right and     *)
(* <td></tr> unchanged; its output holds none of the three patterns, so    *)
(* sanitizing it again changes nothing.                                    *)
(***************************************************************************)
C10_SanitizeIdempotent ==
    Running("parse") =>
        /\ ~Unrepaired(results_line.val)
        /\ sanitize(results_line.val) = results_line.val
        /\ ~Unrepaired(LocatedLine) => results_line.val = LocatedLine

C10_Witness ==
    /\ Running("parse")
    /\ Occurs(LocatedLine, align_left \o align_left)
    /\ Occurs(LocatedLine, td_tr)
    /\ results_line.val # LocatedLine

====
